---- MODULE Spec2Model ----
(***************************************************************************)
(* A model of the dm_api Python client: the connect / dispatch / close     *)
(* lifecycle of the pipe operations (client.py), the response decoding     *)
(* (ffi.py), the signature verifier (security.py) and the dev-license      *)
(* gate (client.py, should_skip_check).                                    *)
(*                                                                         *)
(* Strings are sequences of character codes.  A JSON value is a record     *)
(* [k |-> kind, s |-> codes]; a Python dict is the sequence of its         *)
(* members [key, v] in insertion order.                                    *)
(***************************************************************************)
EXTENDS Integers, Sequences, FiniteSets, TLC

VARIABLES
    \* ---- signature verifier (security.py) ----
    sigPhase,     \* "input" | "done"
    sigData,      \* the response dict handed to check_signature
    sigNonce,     \* the nonce argument
    sigCanon,     \* which canonicalizer callable is passed
    sigResult,    \* [raised, value] of the last check_signature call
    \* ---- dev-license gate (client.py should_skip_check) ----
    gatePhase,    \* "input" | "done"
    gateEnv,      \* os.environ: DM_PIPE, DM_API_PATH, DM_APP_ID, DM_PUBLIC_KEY
    gateArgs,     \* [app_id, public_key] arguments
    gateFile,     \* the pinned pubkey file: [home, readable, text]
    gateReads,    \* number of read_text calls made
    gateResult,   \* [kind, value, msg] outcome of should_skip_check
    \* ---- pipe operations (client.py _call_pipe_json / _call_pipe_bool) ----
    callers,      \* the threads that issue pipe operations
    pipeEnv,      \* os.environ DM_PIPE
    libConn,      \* native library's connection: 0 closed, else the caller whose DM_Connect opened it
    pc,           \* per caller: position inside the pipe operation
    call,         \* per caller: the operation and its arguments
    native,       \* per caller: what the native entry point was given and returned
    pending,      \* per caller: outcome computed inside try, delivered after finally
    outcome,      \* per caller: outcome of the last finished call
    log,          \* per caller: native calls made by the current / last call, in order
    nCalls,       \* pipe operations started
    nOpens,       \* successful DM_Connect calls
    nCloses       \* DM_Close calls

sigVars == <<sigPhase, sigData, sigNonce, sigCanon, sigResult>>
gateVars == <<gatePhase, gateEnv, gateArgs, gateFile, gateReads, gateResult>>
pipeVars == <<callers, pipeEnv, libConn, pc, call, native, pending, outcome, log,
              nCalls, nOpens, nCloses>>
vars == <<sigVars, gateVars, pipeVars>>

(***************************************************************************)
(* Bounds                                                                  *)
(***************************************************************************)
MaxSigLen == 4
MaxKeyLen == 2
MaxCalls == 3

(***************************************************************************)
(* Characters.  A character of the base64 alphabet is coded by its 6-bit   *)
(* value ('B' = 1, 'C' = 2, 'Q' = 16, 'R' = 17), '=' by 64 and the newline, *)
(* which is outside the alphabet, by 65.                                   *)
(***************************************************************************)
ChB == 1
ChC == 2
ChQ == 16
ChR == 17
PAD == 64
NL == 65

(***************************************************************************)
(* Python values                                                           *)
(***************************************************************************)
Str(s) == [k |-> "str", s |-> s]
NoneVal == [k |-> "null", s |-> << >>]
IntVal(n) == [k |-> "int", s |-> <<n>>]
ObjVal(n) == [k |-> "obj", s |-> <<n>>]

\* Python truthiness of a value: None, "" and 0 are falsy.
Truthy(v) ==
    CASE v.k = "null" -> FALSE
      [] v.k = "str" -> v.s # << >>
      [] v.k = "int" -> v.s # <<0>>
      [] OTHER -> TRUE

HasKey(d, key) == \E i \in 1..Len(d) : d[i].key = key

\* dict.get(key): the member's value, None when the key is absent.
DictGet(d, key) ==
    IF HasKey(d, key)
    THEN d[CHOOSE i \in 1..Len(d) : d[i].key = key].v
    ELSE NoneVal

(***************************************************************************)
(* security.py: SignatureVerifier.check_signature                          *)
(***************************************************************************)
SigAlphabet == {ChB, ChQ, ChR, PAD, NL}
Nonces == {<<ChB>>, <<ChC>>}
Canonicalizers == {"oracle", "empty", "none", "raises"}

\* base64.b64decode(s) with validate=False: characters outside the alphabet
\* are skipped, decoding stops at a completed pad sequence, a dangling
\* quantum is binascii.Error (ok = FALSE).
RECURSIVE B64Scan(_, _, _, _, _, _)
B64Scan(s, i, quad, left, pads, out) ==
    IF i > Len(s)
    THEN IF quad # 0 THEN [ok |-> FALSE, bytes |-> << >>]
                     ELSE [ok |-> TRUE, bytes |-> out]
    ELSE LET c == s[i] IN
         IF c = PAD
         THEN IF quad >= 2 /\ quad + pads + 1 >= 4
              THEN [ok |-> TRUE, bytes |-> out]
              ELSE B64Scan(s, i + 1, quad, left,
                           IF quad >= 2 THEN pads + 1 ELSE pads, out)
         ELSE IF c > PAD
         THEN B64Scan(s, i + 1, quad, left, pads, out)
         ELSE CASE quad = 0 -> B64Scan(s, i + 1, 1, c, 0, out)
                [] quad = 1 -> B64Scan(s, i + 1, 2, c % 16, 0,
                                       Append(out, (left * 4 + c \div 16) % 256))
                [] quad = 2 -> B64Scan(s, i + 1, 3, c % 4, 0,
                                       Append(out, (left * 16 + c \div 4) % 256))
                [] OTHER    -> B64Scan(s, i + 1, 0, 0, 0,
                                       Append(out, (left * 64 + c) % 256))

b64decode(s) == B64Scan(s, 1, 0, 0, 0, << >>)

\* payload = {k: v for k, v in data.items() if k != "signature"}
WithoutSignature(data) ==
    LET keep(m) == m.key # "signature" IN SelectSeq(data, keep)

\* payload["nonce_str"] = nonce: overwrites in place, else appends.
SetNonce(payload, nonce) ==
    IF HasKey(payload, "nonce_str")
    THEN [i \in 1..Len(payload) |->
            IF payload[i].key = "nonce_str"
            THEN [key |-> "nonce_str", v |-> Str(nonce)]
            ELSE payload[i]]
    ELSE Append(payload, [key |-> "nonce_str", v |-> Str(nonce)])

SignablePayload(data, nonce) == SetNonce(WithoutSignature(data), nonce)

\* json.dumps(payload, separators=(",", ":")): the members as <<key, value>>
\* text items, in the dict's order, nothing in between.
json_dumps(payload) == [i \in 1..Len(payload) |-> <<payload[i].key, payload[i].v>>]

\* The position of a key in the sorted order of the keys that occur.
KeyRank(key) ==
    CASE key = "data" -> 1
      [] key = "error" -> 2
      [] key = "nonce_str" -> 3
      [] OTHER -> 4

RECURSIVE SortedFrom(_, _)
SortedFrom(text, r) ==
    IF r > 4 THEN << >>
    ELSE LET at(m) == KeyRank(m[1]) = r
         IN SelectSeq(text, at) \o SortedFrom(text, r + 1)

\* The canonicalizer callable.  "oracle" is DM_JsonToCanonical (members in
\* key order); the others are callables that return "", return None, raise.
Canonicalize(canonicalizer, json_str) ==
    CASE canonicalizer = "oracle" ->
            [raised |-> FALSE, none |-> FALSE, text |-> SortedFrom(json_str, 1)]
      [] canonicalizer = "empty" ->
            [raised |-> FALSE, none |-> FALSE, text |-> << >>]
      [] canonicalizer = "none" ->
            [raised |-> FALSE, none |-> TRUE, text |-> << >>]
      [] OTHER ->
            [raised |-> TRUE, none |-> FALSE, text |-> << >>]

ValCode(v) == IF v.k = "str" /\ Len(v.s) = 1 THEN v.s[1] ELSE 0

TextGet(text, key) ==
    IF \E i \in 1..Len(text) : text[i][1] = key
    THEN text[CHOOSE i \in 1..Len(text) : text[i][1] = key][2]
    ELSE NoneVal

\* The one signature the private key yields for a canonical text: RSA
\* PKCS#1 v1.5 is deterministic.  One byte stands for the signature block.
Sign(canonical) ==
    << (16 * ValCode(TextGet(canonical, "error"))
        + 4 * ValCode(TextGet(canonical, "data"))
        + ValCode(TextGet(canonical, "nonce_str"))) % 256 >>

\* public_key.verify(sig, canonical, PKCS1v15, SHA256): TRUE, or
\* InvalidSignature (FALSE).
Verify(sig, canonical) == sig = Sign(canonical)

\* Lines 25-41, the try block: "True", "False", or the exception raised.
check_signature_try(data, nonce, canonicalizer) ==
    LET signature == DictGet(data, "signature") IN
    IF signature.k # "str" THEN "TypeError"
    ELSE LET dec == b64decode(signature.s) IN
         IF ~dec.ok THEN "binascii.Error"
         ELSE LET canonical ==
                      Canonicalize(canonicalizer,
                                   json_dumps(SignablePayload(data, nonce)))
              IN CASE canonical.raised -> "CanonicalizerError"
                   [] canonical.none \/ canonical.text = << >> -> "False"
                   [] Verify(dec.bytes, canonical.text) -> "True"
                   [] OTHER -> "InvalidSignature"

\* check_signature with the except clause left out: exceptions reach the caller.
check_signature_no_except(data, nonce, canonicalizer) ==
    IF ~Truthy(DictGet(data, "signature"))
    THEN [raised |-> FALSE, value |-> FALSE]
    ELSE LET r == check_signature_try(data, nonce, canonicalizer)
         IN [raised |-> r \notin {"True", "False"}, value |-> r = "True"]

check_signature(data, nonce, canonicalizer) ==
    IF ~Truthy(DictGet(data, "signature"))
    THEN [raised |-> FALSE, value |-> FALSE]
    ELSE LET r == check_signature_try(data, nonce, canonicalizer)
         IN [raised |-> FALSE, value |-> r = "True"]

\* ---- inputs ----
RECURSIVE SeqsUpTo(_, _)
SeqsUpTo(S, n) ==
    IF n = 0 THEN {<< >>}
    ELSE LET shorter == SeqsUpTo(S, n - 1)
         IN shorter \cup {Append(s, x) : s \in shorter, x \in S}

SigStrings == SeqsUpTo(SigAlphabet, MaxSigLen)
SigValues == {NoneVal, IntVal(7)} \cup {Str(s) : s \in SigStrings}
DataValues == {Str(<<ChB>>), Str(<<ChC>>)}

Member(key, v) == [key |-> key, v |-> v]

\* Response dicts: data and error, an optional nonce_str member of their
\* own, an optional signature that json.loads placed first or last.
SigEnvelopes ==
    LET bodies == {<<Member("data", d), Member("error", NoneVal)>> : d \in DataValues}
        withNonce == bodies \cup
                     {Append(b, Member("nonce_str", Str(<<ChC>>))) : b \in bodies}
    IN withNonce
       \cup {Append(b, Member("signature", s)) : b \in withNonce, s \in SigValues}
       \cup {<<Member("signature", s)>> \o b : b \in withNonce, s \in SigValues}

SigIdle ==
    /\ sigPhase = "off"
    /\ sigData = << >>
    /\ sigNonce = << >>
    /\ sigCanon = "oracle"
    /\ sigResult = [raised |-> FALSE, value |-> FALSE]

InitSig ==
    /\ sigPhase = "input"
    /\ sigData \in SigEnvelopes
    /\ sigNonce \in Nonces
    /\ sigCanon \in Canonicalizers
    /\ sigResult = [raised |-> FALSE, value |-> FALSE]

\* One call of check_signature on the drawn arguments.
SigCheck ==
    /\ sigPhase = "input"
    /\ sigResult' = check_signature(sigData, sigNonce, sigCanon)
    /\ sigPhase' = "done"
    /\ UNCHANGED <<sigData, sigNonce, sigCanon, gateVars, pipeVars>>

NextSig == SigCheck

(***************************************************************************)
(* client.py: DmApi.should_skip_check                                      *)
(***************************************************************************)
\* Characters of keys and file contents: 'B', 'C' and the newline.
KeyAlphabet == {ChB, ChC, NL}
Whitespace == {NL}

RECURSIVE lstrip(_)
lstrip(s) ==
    IF s # << >> /\ Head(s) \in Whitespace THEN lstrip(Tail(s)) ELSE s

RECURSIVE rstrip(_)
rstrip(s) ==
    IF s # << >> /\ s[Len(s)] \in Whitespace
    THEN rstrip(SubSeq(s, 1, Len(s) - 1))
    ELSE s

\* str.strip()
strip(s) == rstrip(lstrip(s))

\* Python's `a or b`
Or(a, b) == IF Truthy(a) THEN a ELSE b

IDENTITY_ERROR == "App identity is required for dev-license checks."
DEV_LICENSE_ERROR == "Development license is missing or corrupted."
HOME_ERROR == "Could not determine home directory."

Return(v) == [kind |-> "return", value |-> v, msg |-> "", reads |-> 0]
Raise(m, n) == [kind |-> "raise", value |-> FALSE, msg |-> m, reads |-> n]

\* Lines 42-61: the dev-certificate comparison, reached when remote checking
\* is not mandatory.  Path.home() (line 51) is evaluated before the try and
\* raises RuntimeError when no home directory can be determined; reads
\* counts the read_text calls made.
DevLicenseCheck(env, app_id, public_key, file) ==
    LET resolved_app_id == Or(app_id, env.DM_APP_ID)
        resolved_public_key == Or(public_key, env.DM_PUBLIC_KEY)
    IN IF ~Truthy(resolved_app_id) \/ ~Truthy(resolved_public_key)
       THEN Raise(IDENTITY_ERROR, 0)
       ELSE IF ~file.home
       THEN Raise(HOME_ERROR, 0)
       ELSE IF ~file.readable
       THEN Raise(DEV_LICENSE_ERROR, 1)
       ELSE LET dev_pub_key == strip(file.text)
            IN IF dev_pub_key = << >> \/ dev_pub_key # strip(resolved_public_key.s)
               THEN Raise(DEV_LICENSE_ERROR, 1)
               ELSE [Return(TRUE) EXCEPT !.reads = 1]

\* should_skip_check with the identity check ahead of the environment test.
should_skip_check_identity_first(env, app_id, public_key, file) ==
    IF ~Truthy(Or(app_id, env.DM_APP_ID)) \/ ~Truthy(Or(public_key, env.DM_PUBLIC_KEY))
    THEN Raise(IDENTITY_ERROR, 0)
    ELSE IF Truthy(env.DM_PIPE) /\ Truthy(env.DM_API_PATH)
    THEN Return(FALSE)
    ELSE DevLicenseCheck(env, app_id, public_key, file)

\* Lines 34-61.
should_skip_check(env, app_id, public_key, file) ==
    IF Truthy(env.DM_PIPE) /\ Truthy(env.DM_API_PATH)
    THEN Return(FALSE)
    ELSE DevLicenseCheck(env, app_id, public_key, file)

\* ---- inputs ----
KeyStrings == SeqsUpTo(KeyAlphabet, MaxKeyLen)
EnvSetting == {NoneVal, Str(<< >>), Str(<<ChB>>)}
GateEnvs ==
    [DM_PIPE : EnvSetting, DM_API_PATH : EnvSetting,
     DM_APP_ID : {NoneVal, Str(<<ChB>>)}, DM_PUBLIC_KEY : {NoneVal, Str(<<ChB>>)}]
GateArgs ==
    [app_id : {NoneVal, Str(<< >>), Str(<<ChC>>)},
     public_key : {NoneVal} \cup {Str(s) : s \in KeyStrings}]
GateFiles ==
    {[home |-> h, readable |-> FALSE, text |-> << >>] : h \in BOOLEAN}
    \cup {[home |-> TRUE, readable |-> TRUE, text |-> s] : s \in KeyStrings}

GateIdle ==
    /\ gatePhase = "off"
    /\ gateEnv = [DM_PIPE |-> NoneVal, DM_API_PATH |-> NoneVal,
                  DM_APP_ID |-> NoneVal, DM_PUBLIC_KEY |-> NoneVal]
    /\ gateArgs = [app_id |-> NoneVal, public_key |-> NoneVal]
    /\ gateFile = [home |-> TRUE, readable |-> FALSE, text |-> << >>]
    /\ gateReads = 0
    /\ gateResult = Return(FALSE)

InitGate ==
    /\ gatePhase = "input"
    /\ gateEnv \in GateEnvs
    /\ gateArgs \in GateArgs
    /\ gateFile \in GateFiles
    /\ gateReads = 0
    /\ gateResult = Return(FALSE)

\* One call of should_skip_check on the drawn environment and arguments.
GateCheck ==
    /\ gatePhase = "input"
    /\ LET r == should_skip_check(gateEnv, gateArgs.app_id, gateArgs.public_key, gateFile)
       IN /\ gateResult' = r
          /\ gateReads' = gateReads + r.reads
    /\ gatePhase' = "done"
    /\ UNCHANGED <<gateEnv, gateArgs, gateFile, sigVars, pipeVars>>

NextGate == GateCheck

(***************************************************************************)
(* ffi.py ptr_to_json; client.py _call_pipe_json / _call_pipe_bool and the *)
(* five pipe operations                                                    *)
(***************************************************************************)
Callers == {1, 2}
JsonOps == {"check_for_updates", "download_update", "get_update_state",
            "wait_for_update_state_change"}
BoolOps == {"quit_and_install"}
SeqInputs == {-1, 0, 5}
TimeoutInputs == {-1, 0}

\* The bytes a native entry point can leave behind a non-null handle.
Raws ==
    {"", "not json", "{\"data\":", "[1]", "5", "null", "{}",
     "{\"data\":\"C\"}",
     "{\"data\":{\"state\":\"ready\"},\"error\":null,\"signature\":null}",
     "{\"data\":{\"changed\":false},\"error\":null,\"signature\":null}",
     "{\"data\":null,\"error\":\"B\",\"signature\":null}",
     "{\"data\":\"B\",\"error\":null,\"signature\":\"BQ==\"}",
     "{\"data\":\"B\",\"error\":null,\"signature\":\"BQ\"}"}

NoChangeRaw == "{\"data\":{\"changed\":false},\"error\":null,\"signature\":null}"
StateReady == ObjVal(1)
StateNoChange == ObjVal(2)

Parsed(members) == [exc |-> FALSE, isDict |-> TRUE, d |-> members]
ParsedOther == [exc |-> FALSE, isDict |-> FALSE, d |-> << >>]
ParseError == [exc |-> TRUE, isDict |-> FALSE, d |-> << >>]
Envelope(data, error, signature) ==
    <<Member("data", data), Member("error", error), Member("signature", signature)>>

\* json.loads(raw) on each of Raws: JSONDecodeError, a value that is no
\* dict, or the dict with its members in text order.
json_loads(raw) ==
    CASE raw \in {"", "not json", "{\"data\":"} -> ParseError
      [] raw \in {"[1]", "5", "null"} -> ParsedOther
      [] raw = "{}" -> Parsed(<< >>)
      [] raw = "{\"data\":\"C\"}" -> Parsed(<<Member("data", Str(<<ChC>>))>>)
      [] raw = "{\"data\":{\"state\":\"ready\"},\"error\":null,\"signature\":null}" ->
            Parsed(Envelope(StateReady, NoneVal, NoneVal))
      [] raw = NoChangeRaw ->
            Parsed(Envelope(StateNoChange, NoneVal, NoneVal))
      [] raw = "{\"data\":null,\"error\":\"B\",\"signature\":null}" ->
            Parsed(Envelope(NoneVal, Str(<<ChB>>), NoneVal))
      [] raw = "{\"data\":\"B\",\"error\":null,\"signature\":\"BQ==\"}" ->
            Parsed(Envelope(Str(<<ChB>>), NoneVal, Str(<<ChB, ChQ, PAD, PAD>>)))
      [] OTHER ->
            Parsed(Envelope(Str(<<ChB>>), NoneVal, Str(<<ChB, ChQ>>)))

\* What a native entry point hands back: a null handle, a handle to bytes,
\* an int32 status, or a raised OSError / ArgumentError.
NativeReturns(op) ==
    IF op \in BoolOps
    THEN {[kind |-> "raise", raw |-> "", status |-> 0]}
         \cup {[kind |-> "status", raw |-> "", status |-> s] : s \in {0, 1, 2}}
    ELSE {[kind |-> "raise", raw |-> "", status |-> 0],
          [kind |-> "null", raw |-> "", status |-> 0]}
         \cup {[kind |-> "ptr", raw |-> r, status |-> 0] : r \in Raws}
NoReturn == [kind |-> "none", raw |-> "", status |-> 0]

\* ffi.py ptr_to_json: None for a null handle or empty bytes, else json.loads.
ptr_to_json(ret) ==
    IF ret.kind = "null" \/ ret.raw = "" THEN ParsedOther ELSE json_loads(ret.raw)

Returned(v) == [kind |-> "return", v |-> v]
Raised == [kind |-> "raise", v |-> NoneVal]
NoOutcome == [kind |-> "none", v |-> NoneVal]
PyTrue == [k |-> "bool", s |-> <<1>>]
PyFalse == [k |-> "bool", s |-> <<0>>]

\* The no-result outcome of an operation: None, or False for the bool form.
NoResult(op) == IF op \in BoolOps THEN Returned(PyFalse) ELSE Returned(NoneVal)

\* client.py 83-84: the try body of _call_pipe_json.
TryJson(ret) ==
    IF ret.kind = "raise" THEN Raised
    ELSE LET resp == ptr_to_json(ret)
         IN IF resp.exc THEN Raised
            ELSE IF resp.isDict THEN Returned(DictGet(resp.d, "data"))
            ELSE Returned(NoneVal)

\* client.py 95: the try body of _call_pipe_bool.
TryBool(ret) ==
    IF ret.kind = "raise" THEN Raised
    ELSE Returned(IF ret.status = 1 THEN PyTrue ELSE PyFalse)

\* client.py 78 / 90: `if not pipe: return`.
PipeUsable(pipe) == Truthy(pipe)

\* DM_Connect's status taken for success whatever it is.
ConnectedAlways(status) == TRUE
\* client.py 80 / 92: DM_Connect(...) != 0 is failure.
Connected(status) == status = 0

\* try / except in place of try / finally: DM_Close only on a normal return.
RunsCloseOnReturn(o) == o.kind = "return"
\* client.py 85-86 / 96-97: finally runs DM_Close on every exit of the try.
RunsClose(o) == TRUE

\* The arguments passed through unclamped.
ClampNone(n) == n
\* client.py 232-233: max(0, int(n)).
Clamp(n) == IF n < 0 THEN 0 ELSE n

\* The arguments the operation hands to its native entry point (the
\* inputs drawn here lie far inside c_uint64 and c_uint32).
NativeArgs(cl) ==
    IF cl.op = "wait_for_update_state_change"
    THEN <<Clamp(cl.last_sequence), Clamp(cl.timeout_ms)>>
    ELSE << >>

CallInputs ==
    {[op |-> o, last_sequence |-> 0, timeout_ms |-> 0] :
        o \in (JsonOps \cup BoolOps) \ {"wait_for_update_state_change"}}
    \cup {[op |-> "wait_for_update_state_change", last_sequence |-> s, timeout_ms |-> t] :
            s \in SeqInputs, t \in TimeoutInputs}
NoCall == [op |-> "none", last_sequence |-> 0, timeout_ms |-> 0]
NoNative == [args |-> << >>, ret |-> NoReturn]

\* The entry in a call's log for DM_Connect answering status.
ConnectEvent(status) == IF status = 0 THEN "connect_ok" ELSE "connect_fail"
Count(l, e) == Cardinality({i \in 1..Len(l) : l[i] = e})

\* The try body of the operation's helper.
TryBody(op, ret) == IF op \in BoolOps THEN TryBool(ret) ELSE TryJson(ret)

\* _call_pipe_json / _call_pipe_bool as a whole, lines 76-97: the native
\* calls made, in order, and what reaches the caller, given the status
\* DM_Connect answers and what the entry point hands back.
call_pipe(cl, pipe, status, ret) ==
    IF ~PipeUsable(pipe)
    THEN [log |-> << >>, outcome |-> NoResult(cl.op), native |-> NoNative]
    ELSE IF ~Connected(status)
    THEN [log |-> <<ConnectEvent(status)>>, outcome |-> NoResult(cl.op),
          native |-> NoNative]
    ELSE LET o == TryBody(cl.op, ret)
         IN [log |-> <<ConnectEvent(status), "dispatch">>
                     \o (IF RunsClose(o) THEN <<"close">> ELSE << >>),
             outcome |-> o,
             native |-> [args |-> NativeArgs(cl), ret |-> ret]]

PipeIdle ==
    /\ callers = {}
    /\ pipeEnv = NoneVal
    /\ libConn = 0
    /\ pc = [c \in Callers |-> "idle"]
    /\ call = [c \in Callers |-> NoCall]
    /\ native = [c \in Callers |-> NoNative]
    /\ pending = [c \in Callers |-> NoOutcome]
    /\ outcome = [c \in Callers |-> NoOutcome]
    /\ log = [c \in Callers |-> << >>]
    /\ nCalls = 0
    /\ nOpens = 0
    /\ nCloses = 0

InitPipe(active) ==
    /\ callers = active
    /\ pipeEnv \in {NoneVal, Str(<< >>), Str(<<ChB>>)}
    /\ libConn = 0
    /\ pc = [c \in Callers |-> "idle"]
    /\ call = [c \in Callers |-> NoCall]
    /\ native = [c \in Callers |-> NoNative]
    /\ pending = [c \in Callers |-> NoOutcome]
    /\ outcome = [c \in Callers |-> NoOutcome]
    /\ log = [c \in Callers |-> << >>]
    /\ nCalls = 0
    /\ nOpens = 0
    /\ nCloses = 0

\* A pipe operation is entered: lines 77-79 / 89-91.
Begin(c) ==
    /\ pc[c] = "idle"
    /\ nCalls < MaxCalls
    /\ \E cl \in CallInputs :
        /\ call' = [call EXCEPT ![c] = cl]
        /\ IF PipeUsable(pipeEnv)
           THEN /\ pc' = [pc EXCEPT ![c] = "connect"]
                /\ outcome' = [outcome EXCEPT ![c] = NoOutcome]
           ELSE /\ pc' = pc
                /\ outcome' = [outcome EXCEPT ![c] = NoResult(cl.op)]
    /\ nCalls' = nCalls + 1
    /\ log' = [log EXCEPT ![c] = << >>]
    /\ native' = [native EXCEPT ![c] = NoNative]
    /\ pending' = [pending EXCEPT ![c] = NoOutcome]
    /\ UNCHANGED <<sigVars, gateVars, callers, pipeEnv, libConn, nOpens, nCloses>>

\* DM_Connect returns: lines 80-81 / 92-93.  The library holds one
\* connection and its entry points take no handle.
DM_Connect(c) ==
    /\ pc[c] = "connect"
    /\ \E status \in {0, 1} :
        /\ libConn' = (IF status = 0 THEN c ELSE libConn)
        /\ nOpens' = nOpens + (IF status = 0 THEN 1 ELSE 0)
        /\ log' = [log EXCEPT ![c] = Append(@, ConnectEvent(status))]
        /\ IF Connected(status)
           THEN /\ pc' = [pc EXCEPT ![c] = "dispatch"]
                /\ outcome' = outcome
           ELSE /\ pc' = [pc EXCEPT ![c] = "idle"]
                /\ outcome' = [outcome EXCEPT ![c] = NoResult(call[c].op)]
    /\ UNCHANGED <<sigVars, gateVars, callers, pipeEnv, call, native, pending, nCalls, nCloses>>

\* The native entry point is entered: func(*args), lines 83 / 95.
DispatchStart(c) ==
    /\ pc[c] = "dispatch"
    /\ native' = [native EXCEPT ![c] = [args |-> NativeArgs(call[c]), ret |-> NoReturn]]
    /\ log' = [log EXCEPT ![c] = Append(@, "dispatch")]
    /\ pc' = [pc EXCEPT ![c] = "inDispatch"]
    /\ UNCHANGED <<sigVars, gateVars, callers, pipeEnv, libConn, call, pending, outcome, nCalls, nOpens, nCloses>>

\* The native entry point returns and the try body finishes: lines 83-84 / 95.
DispatchEnd(c) ==
    /\ pc[c] = "inDispatch"
    /\ \E ret \in NativeReturns(call[c].op) :
        LET o == TryBody(call[c].op, ret)
        IN /\ native' = [native EXCEPT ![c].ret = ret]
           /\ IF RunsClose(o)
              THEN /\ pending' = [pending EXCEPT ![c] = o]
                   /\ pc' = [pc EXCEPT ![c] = "close"]
                   /\ outcome' = outcome
              ELSE /\ pending' = pending
                   /\ pc' = [pc EXCEPT ![c] = "idle"]
                   /\ outcome' = [outcome EXCEPT ![c] = o]
    /\ UNCHANGED <<sigVars, gateVars, callers, pipeEnv, libConn, call, log, nCalls, nOpens, nCloses>>

\* finally: DM_Close, then the try body's outcome reaches the caller.
DM_Close(c) ==
    /\ pc[c] = "close"
    /\ libConn' = 0
    /\ nCloses' = nCloses + 1
    /\ log' = [log EXCEPT ![c] = Append(@, "close")]
    /\ outcome' = [outcome EXCEPT ![c] = pending[c]]
    /\ pc' = [pc EXCEPT ![c] = "idle"]
    /\ UNCHANGED <<sigVars, gateVars, callers, pipeEnv, call, native, pending, nCalls, nOpens>>

\* One pipe operation of the single caller, from entry to return.
PipeOperation(op) ==
    /\ callers = {1}
    /\ nCalls < MaxCalls
    /\ \E cl \in {x \in CallInputs : x.op = op}, status \in {0, 1},
          ret \in NativeReturns(op) :
        LET r == call_pipe(cl, pipeEnv, status, ret)
            opened == Count(r.log, "connect_ok")
            closed == Count(r.log, "close")
        IN /\ call' = [call EXCEPT ![1] = cl]
           /\ log' = [log EXCEPT ![1] = r.log]
           /\ native' = [native EXCEPT ![1] = r.native]
           /\ outcome' = [outcome EXCEPT ![1] = r.outcome]
           /\ nOpens' = nOpens + opened
           /\ nCloses' = nCloses + closed
           /\ libConn' = (IF closed > 0 THEN 0
                          ELSE IF opened > 0 THEN 1 ELSE libConn)
    /\ nCalls' = nCalls + 1
    /\ UNCHANGED <<sigVars, gateVars, callers, pipeEnv, pc, pending>>

check_for_updates == PipeOperation("check_for_updates")
download_update == PipeOperation("download_update")
get_update_state == PipeOperation("get_update_state")
wait_for_update_state_change == PipeOperation("wait_for_update_state_change")
quit_and_install == PipeOperation("quit_and_install")

(***************************************************************************)
(* Specifications                                                          *)
(***************************************************************************)
\* One caller issuing pipe operations one after the other.
Init == InitPipe({1}) /\ SigIdle /\ GateIdle
Next ==
    \/ check_for_updates
    \/ download_update
    \/ get_update_state
    \/ wait_for_update_state_change
    \/ quit_and_install
Spec == Init /\ [][Next]_vars

\* Two threads issuing pipe operations on the same DmApi object; ctypes
\* releases the interpreter lock inside every native call, so the calls
\* interleave at the native calls.
InitConc == InitPipe(Callers) /\ SigIdle /\ GateIdle
NextConc ==
    \/ \E c \in callers : Begin(c)
    \/ \E c \in callers : DM_Connect(c)
    \/ \E c \in callers : DispatchStart(c)
    \/ \E c \in callers : DispatchEnd(c)
    \/ \E c \in callers : DM_Close(c)
SpecConc == InitConc /\ [][NextConc]_vars

\* check_signature applied to drawn arguments.
InitSigSpec == InitSig /\ GateIdle /\ PipeIdle
SpecSig == InitSigSpec /\ [][NextSig]_vars

\* should_skip_check applied to a drawn environment.
InitGateSpec == InitGate /\ SigIdle /\ PipeIdle
SpecGate == InitGateSpec /\ [][NextGate]_vars

(***************************************************************************)
(* Claims                                                                  *)
(***************************************************************************)
Finished(c) == pc[c] = "idle" /\ outcome[c].kind # "none"

\* C1: after any sequence of pipe operations, whatever their outcomes, the
\* successful DM_Connect calls equal the DM_Close calls and no connection
\* is open once the call has returned or raised.
C1_OpensEqualCloses ==
    /\ (\A c \in callers : pc[c] = "idle") => (nOpens = nCloses /\ libConn = 0)
    /\ \A c \in callers :
        pc[c] = "idle" => Count(log[c], "connect_ok") = Count(log[c], "close")

C1_Witness ==
    /\ pc[1] = "idle"
    /\ outcome[1].kind = "raise"
    /\ nCalls = MaxCalls
    /\ nOpens >= 2

\* C2: the dispatch entry point runs only after the same call's DM_Connect
\* succeeded and before its DM_Close; with DM_PIPE unset or empty nothing
\* native is called, with a failed connect neither dispatch nor close is,
\* and both give the no-result outcome.
C2_DispatchInsideSession ==
    \A c \in callers :
        LET l == log[c] IN
        /\ \A i \in 1..Len(l) :
            l[i] = "dispatch" =>
                /\ \E j \in 1..(i - 1) : l[j] = "connect_ok"
                /\ \A j \in 1..(i - 1) : l[j] \notin {"close", "connect_fail"}
        /\ pipeEnv \in {NoneVal, Str(<< >>)} =>
                /\ l = << >>
                /\ pc[c] = "idle"
                /\ outcome[c].kind # "none" => outcome[c] = NoResult(call[c].op)
        /\ Count(l, "connect_fail") > 0 =>
                /\ l = <<"connect_fail">>
                /\ pc[c] = "idle"
                /\ outcome[c] = NoResult(call[c].op)

C2_Witness ==
    /\ log[1] = <<"connect_fail">>
    /\ Finished(1)
    /\ call[1].op = "quit_and_install"
    /\ outcome[1] = Returned(PyFalse)

\* The decoded response of a finished JSON operation.
RespOf(c) == ptr_to_json(native[c].ret)
GotBytes(c) ==
    /\ Finished(c)
    /\ call[c].op \in JsonOps
    /\ native[c].ret.kind = "ptr"

\* C3: a decoded envelope that carries a signature which fails
\* verification never has its data returned: the caller gets None.
C3_UnverifiedNeverReturned ==
    \A c \in callers :
        (/\ GotBytes(c)
         /\ RespOf(c).isDict
         /\ DictGet(RespOf(c).d, "signature") # NoneVal
         /\ \A n \in Nonces : ~check_signature(RespOf(c).d, n, "oracle").value)
        => outcome[c] = Returned(NoneVal)

\* Bytes that are no JSON, or JSON that is no object with the members
\* data, error and signature.
Malformed(raw) ==
    LET p == json_loads(raw)
    IN \/ p.exc
       \/ ~p.isDict
       \/ \E k \in {"data", "error", "signature"} : ~HasKey(p.d, k)

\* C4: bytes behind a non-null handle that do not parse to an envelope
\* object end the operation with None, returned and not raised, never
\* with a data value.
C4_MalformedIsNoResult ==
    \A c \in callers :
        (GotBytes(c) /\ Malformed(native[c].ret.raw)) => outcome[c] = Returned(NoneVal)

\* C9: wait_for_update_state_change makes one dispatch with last_sequence
\* and timeout_ms clamped to at least zero, and the authority's no-change
\* envelope comes back as a result: not raised, and not the None of a
\* connection or dispatch failure.
C9_NoChangeIsResult ==
    \A c \in callers :
        call[c].op = "wait_for_update_state_change" =>
            /\ Count(log[c], "dispatch") <= 1
            /\ (Finished(c) /\ Count(log[c], "connect_ok") = 1)
                    => Count(log[c], "dispatch") = 1
            /\ Count(log[c], "dispatch") = 1 =>
                    /\ Len(native[c].args) = 2
                    /\ native[c].args[1] >= 0
                    /\ native[c].args[2] >= 0
                    /\ call[c].last_sequence >= 0 => native[c].args[1] = call[c].last_sequence
                    /\ call[c].timeout_ms >= 0 => native[c].args[2] = call[c].timeout_ms
            /\ (GotBytes(c) /\ native[c].ret.raw = NoChangeRaw) =>
                    /\ outcome[c] = Returned(StateNoChange)
                    /\ outcome[c] # NoResult(call[c].op)

C9_Witness ==
    /\ GotBytes(1)
    /\ call[1] = [op |-> "wait_for_update_state_change", last_sequence |-> 5, timeout_ms |-> 0]
    /\ native[1].args = <<5, 0>>
    /\ native[1].ret.raw = NoChangeRaw
    /\ outcome[1] = Returned(StateNoChange)

\* C10: with two callers at once, a call that is dispatching always does
\* so on the connection its own DM_Connect opened: the other caller's
\* DM_Connect or DM_Close never replaces or closes it.
C10_SessionsIsolated ==
    \A c \in callers : pc[c] = "inDispatch" => libConn = c

\* C5: check_signature never raises and answers False for an absent or
\* empty signature, undecodable base64, a canonicalizer that returns
\* nothing or raises, and a signature that does not match; True only
\* when the verify step over the canonical bytes succeeds.
C5_CheckSignatureTotal ==
    sigPhase = "done" =>
        LET sig == DictGet(sigData, "signature")
            canonical == Canonicalize(sigCanon, json_dumps(SignablePayload(sigData, sigNonce)))
        IN /\ ~sigResult.raised
           /\ sigResult.value \in BOOLEAN
           /\ (~HasKey(sigData, "signature") \/ sig \in {NoneVal, Str(<< >>)})
                    => ~sigResult.value
           /\ sig.k # "str" => ~sigResult.value
           /\ (sig.k = "str" /\ ~b64decode(sig.s).ok) => ~sigResult.value
           /\ sigCanon \in {"empty", "none", "raises"} => ~sigResult.value
           /\ sigResult.value =>
                    /\ sig.k = "str"
                    /\ b64decode(sig.s).ok
                    /\ ~canonical.raised /\ ~canonical.none
                    /\ b64decode(sig.s).bytes = Sign(canonical.text)

C5_Witness ==
    /\ sigPhase = "done"
    /\ sigCanon = "raises"
    /\ DictGet(sigData, "signature") = Str(<<ChB, ChQ, PAD, PAD>>)
    /\ sigResult = [raised |-> FALSE, value |-> FALSE]

\* The inputs that differ from the checked ones in the nonce, in the
\* signature or in another member of the envelope.
Changed(e, n) ==
    \/ n # sigNonce
    \/ \E k \in {"data", "error", "nonce_str", "signature"} :
          \/ HasKey(e, k) # HasKey(sigData, k)
          \/ DictGet(e, k) # DictGet(sigData, k)

\* C6: once an envelope and signature verify under a nonce, changing any
\* member of the envelope, the signature or the nonce makes verification
\* fail.
C6_AnyChangeFails ==
    (sigPhase = "done" /\ sigCanon = "oracle" /\ sigResult.value) =>
        \A e \in SigEnvelopes, n \in Nonces :
            Changed(e, n) => ~check_signature(e, n, "oracle").value

Present(v) == v.k = "str" /\ v.s # << >>
RemoteMandatory == Present(gateEnv.DM_PIPE) /\ Present(gateEnv.DM_API_PATH)

\* C7: with both the endpoint and its access token in the environment,
\* should_skip_check returns False without reading the dev-certificate
\* file and without raising, whatever app_id, public_key and the file are.
C7_RemoteMandatoryReturnsFalse ==
    (gatePhase = "done" /\ RemoteMandatory) =>
        /\ gateResult.kind = "return"
        /\ gateResult.value = FALSE
        /\ gateReads = 0

C7_Witness ==
    /\ gatePhase = "done"
    /\ RemoteMandatory
    /\ gateArgs = [app_id |-> NoneVal, public_key |-> NoneVal]
    /\ gateEnv.DM_APP_ID = NoneVal
    /\ gateFile.readable
    /\ gateResult.kind = "return" /\ ~gateResult.value

GivenAppId == IF Present(gateArgs.app_id) THEN gateArgs.app_id ELSE gateEnv.DM_APP_ID
GivenKey == IF Present(gateArgs.public_key) THEN gateArgs.public_key ELSE gateEnv.DM_PUBLIC_KEY
KeyMatches ==
    /\ gateFile.readable
    /\ strip(gateFile.text) # << >>
    /\ strip(gateFile.text) = strip(GivenKey.s)

\* C8: when remote checking is not mandatory should_skip_check never
\* returns False: a missing app_id or public_key raises the configuration
\* error before any file is read; otherwise it returns True exactly when
\* the file is readable and its trimmed content is non-empty and equals
\* the trimmed public_key, and raises the one dev-license error in every
\* other case.
C8_DevLicenseGate ==
    (gatePhase = "done" /\ ~RemoteMandatory) =>
        /\ ~(gateResult.kind = "return" /\ gateResult.value = FALSE)
        /\ IDENTITY_ERROR # DEV_LICENSE_ERROR
        /\ IF ~Present(GivenAppId) \/ ~Present(GivenKey)
           THEN /\ gateResult.kind = "raise"
                /\ gateResult.msg = IDENTITY_ERROR
                /\ gateReads = 0
           ELSE /\ gateReads = 1
                /\ KeyMatches => (gateResult.kind = "return" /\ gateResult.value)
                /\ ~KeyMatches =>
                        (gateResult.kind = "raise" /\ gateResult.msg = DEV_LICENSE_ERROR)

====
